---- MODULE Spec2Model ----
(***************************************************************************)
(* Neural style transfer notebook (Style_Transfer.ipynb): load_image,     *)
(* get_features, gram_matrix, im_convert and stylize.                     *)
(*                                                                         *)
(* Representation.  A tensor is a record [shape, data].  shape is the     *)
(* real torch shape (so 400 x 533 images appear as such); data holds the  *)
(* values of the tensor at a fixed set of tracked elements: TrackPos      *)
(* horizontally adjacent spatial positions of every tracked channel, in   *)
(* row-major order (channel, position).  Images track their 3 channels,   *)
(* feature maps track their first TrackCh channels.  Tensor values are    *)
(* fixed-point numbers in hundredths; raw pixels are 8-bit (0..255).      *)
(* Image tensors live in `storage` and are referred to by a storage id,   *)
(* so that aliasing and in-place updates are visible.                     *)
(***************************************************************************)
EXTENDS Integers, Sequences, FiniteSets, TLC

\* ------------------------------------------------------------- bounds
MaxSteps == 2          \* steps ranges over 0..MaxSteps
MaxDimMult == 2        \* image sides are DimStep * (1..MaxDimMult)
MaxStyleMult == 1      \* style image widths are DimStep * (1..MaxStyleMult)
DimStep == 300         \* granularity of the image sides tried
NumPictures == 1       \* number of distinct pixel contents tried per file
NumNoise == 1          \* number of torch.rand outcomes tried
NumGradDirs == 1       \* number of Adam update directions tried per step
TrackPos == 2          \* tracked spatial positions per channel
TrackCh == 2           \* tracked channels of a feature map
MaxGramD == 2          \* depth d of the tensors gram_matrix is called on directly

\* ---------------------------------------------------- program constants
DefaultMaxSize == 400  \* load_image(max_size=400)

\* stylize defaults (hundredths where fractional)
DefaultLr == 3                    \* lr = 0.03
DefaultContentWeight == 750       \* content_weight = 7.5
DefaultStyleWeight == 10000       \* style_weight = 1e2
DefaultTvWeight == 20000          \* tv_weight = 2e2
DefaultStyleLayerWeightExp == 1   \* style_layer_weight_exp = 1

Mean == <<485, 456, 406>>         \* thousandths
Std == <<229, 224, 225>>          \* thousandths

Dims == {DimStep * k : k \in 1..MaxDimMult}

\* the values tried for target_init and out_format: the documented ones
\* and one other
TargetInits == {"clone", "blank", "random", "zeros"}
OutFormats == {"image-only", "comparison", "side-by-side"}

\* ----------------------------------------------------------- rationals
\* Loss values are exact fractions [num, den], den > 0, in lowest terms.
RECURSIVE GCD(_, _)
GCD(a, b) == IF b = 0 THEN a ELSE GCD(b, a % b)

Abs(x) == IF x < 0 THEN -x ELSE x

Rat(n, d) ==
    LET g == GCD(Abs(n), Abs(d))
        s == IF d < 0 THEN -1 ELSE 1
    IN  [num |-> s * (n \div g), den |-> s * (d \div g)]

RatAdd(a, b) ==
    LET g == GCD(a.den, b.den)
    IN  Rat(a.num * (b.den \div g) + b.num * (a.den \div g), (a.den \div g) * b.den)

RatMul(a, b) ==
    LET x == Rat(a.num, b.den)
        y == Rat(b.num, a.den)
    IN  Rat(x.num * y.num, x.den * y.den)

Zero == Rat(0, 1)
One == Rat(1, 1)
RatSub(a, b) == RatAdd(a, [num |-> -b.num, den |-> b.den])

\* -------------------------------------------------------- sequence helpers
RECURSIVE SumSeq(_)
SumSeq(s) == IF s = <<>> THEN 0 ELSE Head(s) + SumSeq(Tail(s))

\* <<Op(1), ..., Op(n)>>, built eagerly
RECURSIVE ToSeq(_, _)
ToSeq(f, n) == IF n = 0 THEN <<>> ELSE Append(ToSeq(f, n - 1), f[n])
MkSeq(n, Op(_)) == ToSeq([i \in 1..n |-> Op(i)], n)

Max2(a, b) == IF a >= b THEN a ELSE b
Min2(a, b) == IF a <= b THEN a ELSE b

\* element (row r, column p) of a row-major data sequence with `cols` columns
At(data, cols, r, p) == data[(r - 1) * cols + p]
Rows(data) == Len(data) \div TrackPos

\* ------------------------------------------------------------ load_image
\* transforms.Resize(size): an int matches the SHORTER side to size and
\* scales the longer side by the same factor (truncated); a (h, w) pair is
\* taken as the output size.  Result is <<h, w>>.
ResizeInt(w, h, size) ==
    IF w <= h
    THEN <<(size * h) \div w, size>>
    ELSE <<size, (size * w) \div h>>

\* the `size` load_image hands to Resize when shape is None
LoadSize(w, h, max_size) ==
    IF Max2(w, h) > max_size THEN max_size ELSE Max2(w, h)

\* ToTensor (x / 255) followed by Normalize((x - mean) / std), channel c;
\* x is 8-bit, the result is in hundredths (rounded down)
Normalize(x, c) == ((((x * 1000) \div 255) - Mean[c]) * 100) \div Std[c]

NormalizeData(px) ==
    MkSeq(Len(px), LAMBDA i : Normalize(px[i], ((i - 1) \div TrackPos) + 1))

\* faulty variant: the shape argument is not used
load_image_ignoring_shape(file, max_size, shape) ==
    LET hw == ResizeInt(file.w, file.h, LoadSize(file.w, file.h, max_size))
    IN  [shape |-> <<1, 3, hw[1], hw[2]>>, data |-> NormalizeData(file.px)]

\* load_image(img_path, max_size, shape): file is [w, h, px]; shape is
\* <<>> for None and <<h, w>> otherwise.  Returns the tensor (1, 3, h, w).
load_image(file, max_size, shape) ==
    LET hw == IF shape # <<>>
              THEN shape
              ELSE ResizeInt(file.w, file.h, LoadSize(file.w, file.h, max_size))
    IN  [shape |-> <<1, 3, hw[1], hw[2]>>, data |-> NormalizeData(file.px)]

\* -------------------------------------------------------------- VGG19
\* models.vgg19(pretrained=True).features: 37 modules named "0".."36";
\* here module name n is index n + 1.  Convolutions are 3x3 with padding 1
\* (they keep h and w), ReLUs are in place, pools are 2x2 with stride 2.
VggModules ==
    << "conv", "relu", "conv", "relu", "pool",
       "conv", "relu", "conv", "relu", "pool",
       "conv", "relu", "conv", "relu", "conv", "relu", "conv", "relu", "pool",
       "conv", "relu", "conv", "relu", "conv", "relu", "conv", "relu", "pool",
       "conv", "relu", "conv", "relu", "conv", "relu", "conv", "relu", "pool" >>

ModuleNames == 0..(Len(VggModules) - 1)
ConvNames == {n \in ModuleNames : VggModules[n + 1] = "conv"}

\* output channels of convolution `name`
ConvChannels(name) ==
    IF name < 5 THEN 64 ELSE IF name < 10 THEN 128 ELSE IF name < 19 THEN 256 ELSE 512

\* The pretrained parameters of convolution `name`, reduced to what acts on
\* the tracked elements: a tap pattern (seed) and a magnitude 1 / div.
\* They are frozen: requires_grad_(False).
PretrainedVgg ==
    [name \in ConvNames |->
        [seed |-> name, div |-> IF name = 0 THEN 12 ELSE IF name % 2 = 0 THEN 3 ELSE 2, requires_grad |-> FALSE]]

\* weight of tracked input channel k in tracked output channel c
ConvTap(seed, rows, c, k) ==
    IF k = ((c + seed) % rows) + 1 THEN 2
    ELSE IF (seed + k) % 3 = 0 THEN -1 ELSE 1

\* layer(x) for a convolution, on the tracked elements: tracked output
\* channel c at position p mixes the tracked input channels at p.
Conv(param, name, x) ==
    LET rows == Rows(x.data)
        mix(c, p) ==
            SumSeq(MkSeq(rows, LAMBDA k :
                ConvTap(param.seed, rows, c, k) * At(x.data, TrackPos, k, p))) \div param.div
    IN  [shape |-> <<x.shape[1], ConvChannels(name), x.shape[3], x.shape[4]>>,
         data |-> MkSeq(TrackCh * TrackPos,
                        LAMBDA i : mix(((i - 1) \div TrackPos) + 1, ((i - 1) % TrackPos) + 1))]

Relu(x) == [x EXCEPT !.data = MkSeq(Len(x.data), LAMBDA i : Max2(0, x.data[i]))]

\* MaxPool2d(2, 2): halves h and w (floor); a tracked position stands for
\* the maximum of its own window, of which it is the only tracked member.
Pool(x) ==
    [x EXCEPT !.shape = <<x.shape[1], x.shape[2], x.shape[3] \div 2, x.shape[4] \div 2>>]

\* ---------------------------------------------------------- get_features
\* layers: module name -> feature name (the default of get_features)
Layers ==
    (0 :> "conv1_1") @@ (5 :> "conv2_1") @@ (10 :> "conv3_1") @@ (19 :> "conv4_1")
        @@ (12 :> "conv3_2") @@ (21 :> "conv4_2") @@ (28 :> "conv5_1")

LayerNames == {Layers[n] : n \in DOMAIN Layers}

ApplyLayer(model, name, x) ==
    CASE VggModules[name + 1] = "conv" -> Conv(model[name], name, x)
      [] VggModules[name + 1] = "relu" -> Relu(x)
      [] VggModules[name + 1] = "pool" -> Pool(x)

\* The loop of get_features from module `name` on.  features[layers[name]]
\* = x stores a reference to x; the in-place ReLU that follows a convolution
\* writes through it, which `alias` (the feature name bound to the current
\* x, or "") carries.
RECURSIVE RunModules(_, _, _, _, _)
RunModules(model, name, x, features, alias) ==
    IF name >= Len(VggModules)
    THEN features
    ELSE LET y == ApplyLayer(model, name, x)
             inplace == VggModules[name + 1] = "relu"
             f1 == IF inplace /\ alias # ""
                   THEN (alias :> y) @@ features
                   ELSE features
             f2 == IF name \in DOMAIN Layers
                   THEN (Layers[name] :> y) @@ f1
                   ELSE f1
             a2 == IF name \in DOMAIN Layers THEN Layers[name]
                   ELSE IF inplace THEN alias ELSE ""
         IN  \* (the test evaluates y before the next module is applied)
             IF y.data = <<>> THEN features ELSE RunModules(model, name + 1, y, f2, a2)

get_features(image, model) == RunModules(model, 0, image, <<>>, "")

\* ----------------------------------------------------------- gram_matrix
\* faulty variant: the second factor is read back to front
gram_matrix_reversed(tensor) ==
    LET d == Rows(tensor.data)
    IN  [shape |-> <<tensor.shape[2], tensor.shape[2]>>,
         data |-> MkSeq(d * d, LAMBDA e :
             LET i == ((e - 1) \div d) + 1
                 j == ((e - 1) % d) + 1
             IN  SumSeq(MkSeq(TrackPos, LAMBDA p :
                     At(tensor.data, TrackPos, i, p)
                         * At(tensor.data, TrackPos, j, TrackPos + 1 - p))))]

\* tensor.view(d, h * w) times its transpose, on the tracked elements:
\* entry (i, j) is the inner product of tracked rows i and j.
gram_matrix(tensor) ==
    LET d == Rows(tensor.data)
    IN  [shape |-> <<tensor.shape[2], tensor.shape[2]>>,
         data |-> MkSeq(d * d, LAMBDA e :
             LET i == ((e - 1) \div d) + 1
                 j == ((e - 1) % d) + 1
             IN  SumSeq(MkSeq(TrackPos, LAMBDA p :
                     At(tensor.data, TrackPos, i, p) * At(tensor.data, TrackPos, j, p))))]

\* torch.mean((a - b) ** 2) over the tracked elements
MeanSq(a, b) ==
    Rat(SumSeq(MkSeq(Len(a.data), LAMBDA i : (a.data[i] - b.data[i]) * (a.data[i] - b.data[i]))),
        Len(a.data))

\* ------------------------------------------------------------- inputs
\* pixel content of a file: the 8-bit values the resized image shows at the
\* tracked positions of its 3 channels
Picture(k) == MkSeq(3 * TrackPos, LAMBDA i : (i * k * 97) % 256)

Files == {[w |-> w, h |-> h, px |-> Picture(k)] : w \in Dims, h \in Dims, k \in 1..NumPictures}
\* style files: the smallest height, a picture of their own
StyleFiles ==
    {[w |-> DimStep * k, h |-> DimStep, px |-> Picture(NumPictures + 1)] : k \in 1..MaxStyleMult}

\* torch.rand: uniform in [0, 1), hundredths
Noise(k) == MkSeq(3 * TrackPos, LAMBDA i : (i * k * 37) % 100)

\* content_weight_blend: the default 1 and a proper blend
Blends == {One, Rat(1, 4)}

\* ------------------------------------------------------------- im_convert
\* value * std + mean for channel c, clipped to [0, 1]; hundredths
Denormalize(v, c) == Max2(0, Min2(100, (v * Std[c] + Mean[c] * 100) \div 1000))

DenormalizeData(data) ==
    MkSeq(Len(data), LAMBDA i : Denormalize(data[i], ((i - 1) \div TrackPos) + 1))

\* numpy squeeze(): drops every dimension of size 1
Squeeze(shape) == SelectSeq(shape, LAMBDA n : n # 1)

\* im_convert(tensor): squeeze, transpose(1, 2, 0), un-normalise, clip
im_convert(shape, data) ==
    LET sq == Squeeze(shape)
    IN  [shape |-> <<sq[2], sq[3], sq[1]>>, data |-> DenormalizeData(data)]

\* ------------------------------------------------------- stylize helpers
\* optimizer.step() on one parameter: Adam moves every element by at most
\* lr; the direction per element comes from the gradient of total_loss
\* through the network and is drawn from NumGradDirs patterns.
GradDir(g, i) ==
    IF (i * g) % 3 = 1 THEN 1 ELSE IF (i * g) % 3 = 2 THEN -1 ELSE 0

AdamStep(data, lr, g) == MkSeq(Len(data), LAMBDA i : data[i] - lr * GradDir(g, i))

\* lr = lr if target_init == "clone" else min(lr*10, 0.2)
EffectiveLr(lr, init) == IF init = "clone" THEN lr ELSE Min2(lr * 10, 20)

style_layers == <<"conv1_1", "conv2_1", "conv3_1", "conv4_1", "conv5_1">>

\* the loop that fills style_layers_weights, from position i with the
\* running layer_weight; a dict in insertion order: <<layer, weight>> pairs
RECURSIVE StyleLayersWeights(_, _, _)
StyleLayersWeights(i, layer_weight, exp) ==
    IF i > Len(style_layers) THEN <<>>
    ELSE << <<style_layers[i], layer_weight>> >>
            \o StyleLayersWeights(i + 1, layer_weight * exp, exp)

\* content_layers_weights, in insertion order
\* faulty variant: the two weights exchanged
ContentLayersWeightsSwapped(blend) ==
    << <<"conv3_2", RatSub(One, blend)>>, <<"conv4_2", blend>> >>

ContentLayersWeights(blend) ==
    << <<"conv3_2", blend>>, <<"conv4_2", RatSub(One, blend)>> >>

\* weight of `layer` in a dict of <<layer, weight>> pairs (Zero if absent)
WeightOf(weights, layer) ==
    LET hits == SelectSeq(weights, LAMBDA e : e[1] = layer)
    IN  IF hits = <<>> THEN Zero ELSE hits[1][2]

\* content_loss = 0; for layer in content_layers_weights: content_loss +=
\* content_layers_weights[layer] * mean((target - content) ** 2)
RECURSIVE ContentLoss(_, _, _)
ContentLoss(weights, tf, cf) ==
    IF weights = <<>> THEN Zero
    ELSE LET layer == weights[Len(weights)][1]
             w == weights[Len(weights)][2]
         IN  RatAdd(ContentLoss(SubSeq(weights, 1, Len(weights) - 1), tf, cf),
                    RatMul(w, MeanSq(tf[layer], cf[layer])))

\* faulty variant: the term is not divided by the layer size
StyleTermUndivided(layer, w, tf, gms) ==
    RatMul(Rat(w, 1), MeanSq(gram_matrix(tf[layer]), gms[layer]))

\* one term of the style loss: layer_style_loss / (d * h * w)
StyleTerm(layer, w, tf, gms) ==
    LET sh == tf[layer].shape
        layer_style_loss == RatMul(Rat(w, 1), MeanSq(gram_matrix(tf[layer]), gms[layer]))
    IN  RatMul(layer_style_loss, Rat(1, sh[2] * sh[3] * sh[4]))

\* style_loss = 0; for layer in style_layers_weights: style_loss += term.
\* The sum is kept as the sequence of its terms, in the order they are
\* added: their denominators d * h * w have no common 32-bit multiple.
RECURSIVE StyleLoss(_, _, _)
StyleLoss(weights, tf, gms) ==
    IF weights = <<>> THEN <<>>
    ELSE LET e == weights[Len(weights)]
         IN  Append(StyleLoss(SubSeq(weights, 1, Len(weights) - 1), tf, gms),
                    StyleTerm(e[1], e[2], tf, gms))

\* total variation: h_tv / count_h and w_tv / count_w.  The tracked positions
\* of a channel are horizontal neighbours, so they contribute to w_tv only.
TvLoss(shape, data) ==
    LET count_h == (shape[3] - 1) * shape[4]
        count_w == shape[3] * (shape[4] - 1)
        h_tv == 0
        w_tv == SumSeq(MkSeq(Rows(data), LAMBDA c :
                    SumSeq(MkSeq(TrackPos - 1, LAMBDA p :
                        Abs(At(data, TrackPos, c, p + 1) - At(data, TrackPos, c, p))))))
    IN  RatMul(Rat(2, shape[1]), RatAdd(Rat(h_tv, count_h), Rat(w_tv, count_w)))

\* the per-iteration weights for "blank" and "random" (ii <= steps * 0.2),
\* as <<content_weight, style_weight, tv_weight>> in hundredths
ScheduledWeights(ii, steps) ==
    IF 5 * ii <= steps THEN <<100, 1, 200>> ELSE <<1000, 10000, 2000>>

\* transforms.ToPILImage accepts 2- and 3-dimensional tensors only
ToPILAccepts(shape) == Len(shape) \in {2, 3}

\* a float tensor becomes 8-bit: pic.mul(255).byte()
ToBytes(data) == MkSeq(Len(data), LAMBDA i : (data[i] * 255) \div 100)

\* ================================================================ state
VARIABLES
    \* the arguments of the call and the two image files
    content_file, style_file, target_init, out_format, steps, content_weight_blend,
    \* position in stylize, the exception that ended it ("" if none)
    pc, raised,
    \* tensor storages (storage id -> data) and the module-level network
    storage, vgg,
    \* locals of stylize; an unbound local is the No... value of its kind
    content, style, target, optimizer,
    content_features, style_features, style_gms,
    style_layers_weights, content_layers_weights,
    ii, content_weight, style_weight, tv_weight,
    target_features, content_loss, style_loss, tv_loss, hw_x, target_out,
    \* what has been written to out_path, in order
    out_file,
    \* history: the steps performed so far, <<step, ii>>
    log,
    \* a direct call gram_matrix(tensor): its argument and what it returned
    gm_tensor, gm_gram

args == <<content_file, style_file, target_init, out_format, steps, content_weight_blend>>
images == <<content, style>>
reference == <<content_features, style_features, style_gms>>
layer_weights == <<style_layers_weights, content_layers_weights>>
loss_weights == <<content_weight, style_weight, tv_weight>>
losses == <<target_features, content_loss, style_loss, tv_loss, hw_x>>
gram_call == <<gm_tensor, gm_gram>>

vars == <<args, pc, raised, storage, vgg, images, target, optimizer, reference,
          layer_weights, ii, loss_weights, losses, target_out, out_file, log, gram_call>>

NoTensor == [shape |-> <<>>, sid |-> 0]
NoOptimizer == [params |-> <<>>, lr |-> 0]
NoFeatures == <<>>
NoWeights == <<>>
Unbound == [num |-> 0, den |-> 0]
NoValue == [shape |-> <<>>, data |-> <<>>]

\* the data of a tensor reference
DataOf(t) == storage[t.sid]
\* a tensor value [shape, data] from a reference
Val(t) == [shape |-> t.shape, data |-> storage[t.sid]]

Init ==
    /\ content_file \in Files
    /\ style_file \in StyleFiles
    /\ target_init \in TargetInits
    /\ out_format \in OutFormats
    /\ steps \in 0..MaxSteps
    /\ content_weight_blend \in Blends
    /\ pc = "load"
    /\ raised = ""
    /\ storage = <<>>
    /\ vgg = PretrainedVgg
    /\ content = NoTensor /\ style = NoTensor /\ target = NoTensor
    /\ optimizer = NoOptimizer
    /\ content_features = NoFeatures /\ style_features = NoFeatures /\ style_gms = NoFeatures
    /\ style_layers_weights = NoWeights /\ content_layers_weights = NoWeights
    /\ ii = 0
    /\ content_weight = DefaultContentWeight
    /\ style_weight = DefaultStyleWeight
    /\ tv_weight = DefaultTvWeight
    /\ target_features = NoFeatures
    /\ content_loss = Unbound /\ style_loss = <<>> /\ tv_loss = Unbound
    /\ hw_x = <<>>
    /\ target_out = NoTensor
    /\ out_file = <<>>
    /\ log = <<>>
    /\ gm_tensor = NoValue /\ gm_gram = NoValue

\* content = load_image(content_path); style = load_image(style_path,
\* shape=content.shape[-2:])
LoadImages ==
    /\ pc = "load"
    /\ LET c == load_image(content_file, DefaultMaxSize, <<>>)
           s == load_image(style_file, DefaultMaxSize, <<c.shape[3], c.shape[4]>>)
       IN  /\ storage' = <<c.data, s.data>>
           /\ content' = [shape |-> c.shape, sid |-> 1]
           /\ style' = [shape |-> s.shape, sid |-> 2]
    /\ pc' = "define_target"
    /\ UNCHANGED <<gram_call, args, raised, vgg, target, optimizer, reference, layer_weights, ii,
                   loss_weights, losses, target_out, out_file, log>>

\* faulty variant: the chain ends in "blank" instead of raising
TargetInitBranchNoElse(init) ==
    IF init = "clone" THEN "clone" ELSE IF init = "random" THEN "random" ELSE "blank"

\* the branch of the if / elif / else chain on target_init that is taken
TargetInitBranch(init) ==
    CASE init = "clone" -> "clone"
      [] init = "blank" -> "blank"
      [] init = "random" -> "random"
      [] OTHER -> "else"

\* faulty variant: "clone" starts from zeros instead of the content image
InitialTargetDataZeros(branch, k) ==
    CASE branch = "clone" -> MkSeq(3 * TrackPos, LAMBDA i : 0)
      [] branch = "blank" -> MkSeq(3 * TrackPos, LAMBDA i : 50)
      [] branch = "random" -> Noise(k)

\* the data a fresh target starts with: content.clone(), torch.full(0.5),
\* torch.rand (outcome k)
InitialTargetData(branch, k) ==
    CASE branch = "clone" -> DataOf(content)
      [] branch = "blank" -> MkSeq(3 * TrackPos, LAMBDA i : 50)
      [] branch = "random" -> Noise(k)

\* faulty variant: the target is bound to the storage of content
TargetSharesContent == content.sid

\* the storage of the new target tensor: clone(), full() and rand() each
\* allocate one (a tensor bound to an existing storage would share it)
TargetStorageId == Len(storage) + 1

\* #define target
DefineTarget ==
    /\ pc = "define_target"
    /\ LET branch == TargetInitBranch(target_init)
       IN  IF branch # "else"
           THEN \E k \in 1..(IF branch = "random" THEN NumNoise ELSE 1) :
                   LET sid == TargetStorageId
                   IN  /\ storage' = IF sid > Len(storage)
                                     THEN Append(storage, InitialTargetData(branch, k))
                                     ELSE storage
                       /\ target' = [shape |-> content.shape, sid |-> sid]
                       /\ pc' = "optimizer"
                       /\ UNCHANGED raised
           ELSE /\ raised' = "ValueError"
                /\ pc' = "raised"
                /\ UNCHANGED <<storage, target>>
    /\ UNCHANGED <<gram_call, args, vgg, images, optimizer, reference, layer_weights, ii,
                   loss_weights, losses, target_out, out_file, log>>

\* #optimizer: optim.Adam([target], lr = lr)
OptimizerParams == <<target.sid>>

CreateOptimizer ==
    /\ pc = "optimizer"
    /\ optimizer' = [params |-> OptimizerParams, lr |-> EffectiveLr(DefaultLr, target_init)]
    /\ pc' = "features"
    /\ UNCHANGED <<gram_call, args, raised, storage, vgg, images, target, reference, layer_weights,
                   ii, loss_weights, losses, target_out, out_file, log>>

\* #get the content and style features, #style gram matrices
ExtractReference ==
    /\ pc = "features"
    /\ content_features' = get_features(Val(content), vgg)
    /\ style_features' = get_features(Val(style), vgg)
    /\ style_gms' = [layer \in LayerNames |-> gram_matrix(style_features'[layer])]
    /\ pc' = "weights"
    /\ UNCHANGED <<gram_call, args, raised, storage, vgg, images, target, optimizer, layer_weights,
                   ii, loss_weights, losses, target_out, out_file, log>>

\* #set the weights for each style layer, #content weight blend
SetWeights ==
    /\ pc = "weights"
    /\ style_layers_weights' = StyleLayersWeights(1, 1, DefaultStyleLayerWeightExp)
    /\ content_layers_weights' = ContentLayersWeights(content_weight_blend)
    /\ pc' = "loop"
    /\ UNCHANGED <<gram_call, args, raised, storage, vgg, images, target, optimizer, reference,
                   ii, loss_weights, losses, target_out, out_file, log>>

\* faulty variant: one iteration too many
RangeHasNextInclusive(i, n) == i <= n

\* range(1, steps + 1) has a value after i
RangeHasNext(i, n) == i < n

\* for ii in range(1, steps + 1): the next ii, the weight schedule of
\* "blank" and "random" (the prints that follow change nothing)
LoopHead ==
    /\ pc = "loop"
    /\ IF RangeHasNext(ii, steps)
       THEN /\ ii' = ii + 1
            /\ IF target_init \in {"blank", "random"}
               THEN /\ content_weight' = ScheduledWeights(ii', steps)[1]
                    /\ style_weight' = ScheduledWeights(ii', steps)[2]
                    /\ tv_weight' = ScheduledWeights(ii', steps)[3]
               ELSE UNCHANGED loss_weights
            /\ pc' = "extract"
       ELSE /\ pc' = "export"
            /\ UNCHANGED <<ii, loss_weights>>
    /\ UNCHANGED <<gram_call, args, raised, storage, vgg, images, target, optimizer, reference,
                   layer_weights, losses, target_out, out_file, log>>

\* target_features = get_features(target, vgg)
ExtractTarget ==
    /\ pc = "extract"
    /\ target_features' = get_features(Val(target), vgg)
    /\ log' = Append(log, <<"extract", ii>>)
    /\ pc' = "loss"
    /\ UNCHANGED <<gram_call, args, raised, storage, vgg, images, target, optimizer, reference,
                   layer_weights, ii, loss_weights, content_loss, style_loss, tv_loss,
                   hw_x, target_out, out_file>>

\* content loss, style loss, total variation denoising.  total_loss is the
\* weighted sum of the three; only its gradient is used, in UpdateTarget.
ComputeLoss ==
    /\ pc = "loss"
    /\ content_loss' = ContentLoss(content_layers_weights, target_features, content_features)
    /\ style_loss' = StyleLoss(style_layers_weights, target_features, style_gms)
    /\ hw_x' = <<target.shape[3], target.shape[4]>>
    /\ tv_loss' = TvLoss(target.shape, DataOf(target))
    /\ log' = Append(log, <<"loss", ii>>)
    /\ pc' = "update"
    /\ UNCHANGED <<gram_call, args, raised, storage, vgg, images, target, optimizer, reference,
                   layer_weights, ii, loss_weights, target_features, target_out, out_file>>

\* the storages optimizer.step() writes: those of its parameters
RECURSIVE StepAll(_, _, _, _)
StepAll(st, params, lr, g) ==
    IF params = <<>> THEN st
    ELSE StepAll([st EXCEPT ![Head(params)] = AdamStep(st[Head(params)], lr, g)],
                 Tail(params), lr, g)

\* optimizer.zero_grad(); total_loss.backward(); optimizer.step()
\* (the progress display under ii % show_every == 0 changes nothing)
UpdateTarget ==
    /\ pc = "update"
    /\ \E g \in 1..NumGradDirs :
          storage' = StepAll(storage, optimizer.params, optimizer.lr, g)
    /\ log' = log \o << <<"zero_grad", ii>>, <<"backward", ii>>, <<"step", ii>> >>
    /\ pc' = "loop"
    /\ UNCHANGED <<gram_call, args, raised, vgg, images, target, optimizer, reference,
                   layer_weights, ii, loss_weights, losses, target_out, out_file>>

\* # exporting final result: the reverse normalisation of "clone"
\* (target.detach().cpu().view(-1, h_x, w_x), then target * std + mean,
\* clamped to [0, 1]); h_x and w_x are bound by the loop body only
ExportConvert ==
    /\ pc = "export"
    /\ log' = Append(log, <<"export", ii>>)
    /\ IF target_init = "clone"
       THEN IF hw_x = <<>>
            THEN /\ raised' = "UnboundLocalError"
                 /\ pc' = "raised"
                 /\ UNCHANGED <<storage, target, target_out>>
            ELSE LET numel == target.shape[1] * target.shape[2] * target.shape[3] * target.shape[4]
                     view == <<numel \div (hw_x[1] * hw_x[2]), hw_x[1], hw_x[2]>>
                 IN  /\ target' = [shape |-> view, sid |-> target.sid]
                     /\ storage' = Append(storage, DenormalizeData(DataOf(target)))
                     /\ target_out' = [shape |-> view, sid |-> Len(storage) + 1]
                     /\ pc' = "save"
                     /\ UNCHANGED raised
       ELSE /\ target_out' = target
            /\ pc' = "save"
            /\ UNCHANGED <<raised, storage, target>>
    /\ UNCHANGED <<gram_call, args, vgg, images, optimizer, reference, layer_weights, ii,
                   loss_weights, losses, out_file>>

\* the figure of "comparison": Output, Content, Style
ComparisonFigure ==
    [kind |-> "figure",
     Output |-> im_convert(target.shape, DataOf(target)),
     Content |-> im_convert(content.shape, DataOf(content)),
     Style |-> im_convert(style.shape, DataOf(style))]

\* the picture of "image-only": ToPILImage("RGB")(target_out)
OutputImage ==
    [kind |-> "image", mode |-> "RGB",
     size |-> <<target_out.shape[3], target_out.shape[2]>>,
     bands |-> target_out.shape[1],
     px |-> ToBytes(DataOf(target_out))]

\* the out_format branches: save the picture, save the figure, or raise
ExportSave ==
    /\ pc = "save"
    /\ CASE out_format = "image-only" ->
                IF ToPILAccepts(target_out.shape)
                THEN /\ out_file' = Append(out_file, OutputImage)
                     /\ pc' = "done"
                     /\ UNCHANGED raised
                ELSE /\ raised' = "ValueError"
                     /\ pc' = "raised"
                     /\ UNCHANGED out_file
         [] out_format = "comparison" ->
                /\ out_file' = Append(out_file, ComparisonFigure)
                /\ pc' = "done"
                /\ UNCHANGED raised
         [] OTHER ->
                /\ raised' = "ValueError"
                /\ pc' = "raised"
                /\ UNCHANGED out_file
    /\ UNCHANGED <<gram_call, args, storage, vgg, images, target, optimizer, reference,
                   layer_weights, ii, loss_weights, losses, target_out, log>>

Next ==
    \/ LoadImages
    \/ DefineTarget
    \/ CreateOptimizer
    \/ ExtractReference
    \/ SetWeights
    \/ LoopHead
    \/ ExtractTarget
    \/ ComputeLoss
    \/ UpdateTarget
    \/ ExportConvert
    \/ ExportSave

Spec == Init /\ [][Next]_vars

\* ---------------------------------------------- gram_matrix called directly
\* the values an element of the argument takes (hundredths)
GramValues == {-2, 0, 3}

\* the arguments tried: shape (1, d, h, w) with h * w = TrackPos, so that
\* every element of the tensor is a tracked one
GramTensors ==
    UNION {{[shape |-> <<1, d, h, TrackPos \div h>>, data |-> data] :
                data \in [1..(d * TrackPos) -> GramValues]} :
           d \in 1..MaxGramD, h \in {1, TrackPos}}

\* stylize is not running; gram_matrix is about to be called on gm_tensor
GramInit ==
    /\ gm_tensor \in GramTensors
    /\ gm_gram = NoValue
    /\ content_file = CHOOSE f \in Files : TRUE
    /\ style_file = CHOOSE f \in StyleFiles : TRUE
    /\ target_init = "clone"
    /\ out_format = "image-only"
    /\ steps = 0
    /\ content_weight_blend = One
    /\ pc = "idle"
    /\ raised = ""
    /\ storage = <<>>
    /\ vgg = PretrainedVgg
    /\ content = NoTensor /\ style = NoTensor /\ target = NoTensor
    /\ optimizer = NoOptimizer
    /\ content_features = NoFeatures /\ style_features = NoFeatures /\ style_gms = NoFeatures
    /\ style_layers_weights = NoWeights /\ content_layers_weights = NoWeights
    /\ ii = 0
    /\ content_weight = DefaultContentWeight
    /\ style_weight = DefaultStyleWeight
    /\ tv_weight = DefaultTvWeight
    /\ target_features = NoFeatures
    /\ content_loss = Unbound /\ style_loss = <<>> /\ tv_loss = Unbound
    /\ hw_x = <<>>
    /\ target_out = NoTensor
    /\ out_file = <<>>
    /\ log = <<>>

\* gram = gram_matrix(tensor)
CallGramMatrix ==
    /\ pc = "idle"
    /\ gm_gram = NoValue
    /\ gm_gram' = gram_matrix(gm_tensor)
    /\ UNCHANGED <<gm_tensor, args, pc, raised, storage, vgg, images, target, optimizer,
                   reference, layer_weights, ii, loss_weights, losses, target_out,
                   out_file, log>>

GramNext == CallGramMatrix

GramSpec == GramInit /\ [][GramNext]_vars

\* =============================================================== claims
IsPrefix(a, b) == Len(a) <= Len(b) /\ a = SubSeq(b, 1, Len(a))

IterationLog(i) ==
    << <<"extract", i>>, <<"loss", i>>, <<"zero_grad", i>>, <<"backward", i>>, <<"step", i>> >>

RECURSIVE LoopLog(_)
LoopLog(n) == IF n = 0 THEN <<>> ELSE LoopLog(n - 1) \o IterationLog(n)

\* the steps of a complete run of n iterations
ExpectedLog(n) == Append(LoopLog(n), <<"export", n>>)

Terminated == pc \in {"done", "raised"}
InLoop == pc \in {"loop", "extract", "loss", "update"}

C2_UpdateChangesOnlyTarget ==
    [][pc = "update" =>
        /\ vgg' = vgg
        /\ content' = content /\ style' = style
        /\ storage'[content.sid] = storage[content.sid]
        /\ storage'[style.sid] = storage[style.sid]
        /\ \A s \in 1..Len(storage) : s # target.sid => storage'[s] = storage[s]
        /\ Len(storage') = Len(storage)
        /\ content_features' = content_features
        /\ style_features' = style_features
        /\ style_gms' = style_gms]_vars

C2_Witness ==
    /\ pc = "loop"
    /\ ii = MaxSteps
    /\ target_init = "clone"
    /\ DataOf(target) # DataOf(content)
    /\ DataOf(content) = NormalizeData(content_file.px)
    /\ content_features = get_features(Val(content), vgg)

\* C3: a target_init other than "clone", "blank", "random" ends the call
\* with ValueError at the target definition: no optimizer exists, no loop
\* iteration has run, nothing has been written to out_path.
C3_BadTargetInitRaisesEarly ==
    (target_init \notin {"clone", "blank", "random"})
    => /\ pc \in {"load", "define_target", "raised"}
       /\ (pc = "define_target" => ENABLED DefineTarget)
       /\ (pc = "raised" => raised = "ValueError")
       /\ (pc # "raised" => raised = "")
       /\ optimizer = NoOptimizer
       /\ target = NoTensor
       /\ ii = 0 /\ log = <<>>
       /\ out_file = <<>>

C3_Witness ==
    /\ target_init = "zeros"
    /\ pc = "raised"
    /\ raised = "ValueError"
    /\ content # NoTensor
    /\ optimizer = NoOptimizer

\* C4 (as claimed): with an accepted target_init, an out_format that is
\* neither "image-only" nor "comparison" ends the call with ValueError, and
\* nothing is saved.
C4_BadOutFormatRaisesValueError ==
    (target_init \in {"clone", "blank", "random"}
        /\ out_format \notin {"image-only", "comparison"} /\ Terminated)
    => /\ pc = "raised"
       /\ raised = "ValueError"
       /\ out_file = <<>>

\* C5 (as claimed): for every accepted target_init and every steps >= 0 the
\* call ends having saved exactly one thing to out_path: with "image-only"
\* the target as a 3-channel RGB picture, with "comparison" one figure
\* holding the output, the content image and the style image.
C5_ExportSavesExactlyOne ==
    (target_init \in {"clone", "blank", "random"}
        /\ out_format \in {"image-only", "comparison"} /\ Terminated)
    => /\ pc = "done"
       /\ raised = ""
       /\ Len(out_file) = 1
       /\ (out_format = "image-only"
            => out_file[1].kind = "image" /\ out_file[1].mode = "RGB" /\ out_file[1].bands = 3)
       /\ (out_format = "comparison" => out_file[1].kind = "figure")

\* C6 (as claimed): with the default content_weight_blend (1) the content
\* layer is conv4_2: its weight in the content loss is not zero.
C6_Conv42IsContentLayer ==
    (content_weight_blend = One /\ content_layers_weights # NoWeights)
    => WeightOf(content_layers_weights, "conv4_2") # Zero

\* the states in which content_loss belongs to the current target_features
LossComputed == content_loss # Unbound /\ pc # "loss"

C8_LoadedImageWithinMaxSize ==
    (pc # "load")
    => /\ content.shape[3] <= DefaultMaxSize
       /\ content.shape[4] <= DefaultMaxSize

\* C9: the loaded style image has exactly the height and width of the loaded
\* content image, whatever its own size; in every iteration content, style
\* and target have the same height and width (and so do their features).
C9_StyleAndTargetHaveContentSize ==
    /\ (pc # "load"
        => /\ style.shape = content.shape
           /\ Len(DataOf(style)) = Len(DataOf(content)))
    /\ (InLoop
        => /\ target.shape[3] = content.shape[3] /\ target.shape[4] = content.shape[4]
           /\ style.shape[3] = content.shape[3] /\ style.shape[4] = content.shape[4])
    /\ (pc = "update"
        => \A layer \in LayerNames :
              /\ target_features[layer].shape = content_features[layer].shape
              /\ target_features[layer].shape = style_features[layer].shape)

C9_Witness ==
    /\ pc = "update"
    /\ ii = MaxSteps
    /\ style_file.w = style_file.h
    /\ content.shape[3] # content.shape[4]
    /\ <<style_file.h, style_file.w>> # <<content.shape[3], content.shape[4]>>
    /\ style.shape = content.shape

\* C10: the target starts as target_init says, with the shape of the content
\* image: "clone" equal to the content image element for element, "blank"
\* with one constant value everywhere, "random" with noise in [0, 1); it has
\* the shape of the content image through every iteration.
C10_TargetInitialisedByMode ==
    /\ (pc = "optimizer"
        => /\ target.shape = content.shape
           /\ Len(DataOf(target)) = Len(DataOf(content))
           /\ (target_init = "clone" => DataOf(target) = DataOf(content))
           /\ (target_init = "blank"
                => \A i \in 1..Len(DataOf(target)) : DataOf(target)[i] = 50)
           /\ (target_init = "random"
                => /\ \A i \in 1..Len(DataOf(target)) :
                         DataOf(target)[i] >= 0 /\ DataOf(target)[i] < 100
                   /\ \E i, j \in 1..Len(DataOf(target)) :
                         DataOf(target)[i] # DataOf(target)[j]))
    /\ (InLoop \/ pc \in {"features", "weights", "export"}
        => target.shape = content.shape)

C10_Witness ==
    /\ pc = "loop"
    /\ ii = MaxSteps
    /\ target_init = "blank"
    /\ target.shape = content.shape
    /\ \E i \in 1..Len(DataOf(target)) : DataOf(target)[i] # 50

\* the term the style loss has for `layer`: its weight times the mean squared
\* difference of the Gram matrices of the target features and of the style
\* features, over d * h * w of the target features
ExpectedStyleTerm(layer) ==
    LET sh == target_features[layer].shape
        d == sh[2]
        h == sh[3]
        w == sh[4]
        target_gram == gram_matrix(target_features[layer])
        style_gram == gram_matrix(style_features[layer])
        weight == SelectSeq(style_layers_weights, LAMBDA e : e[1] = layer)[1][2]
    IN  RatMul(RatMul(Rat(weight, 1), MeanSq(target_gram, style_gram)), Rat(1, d * h * w))

\* C11: the style loss of an iteration is a sum over exactly the five layers
\* conv1_1, conv2_1, conv3_1, conv4_1, conv5_1 (never conv3_2 or conv4_2);
\* each term is the layer's weight times the mean squared difference of the
\* target's Gram matrix and the style image's Gram matrix computed once
\* before the loop, divided by the layer size d * h * w.
C11_StyleLossSumsFiveStyleLayers ==
    /\ (pc \in {"loop", "extract", "loss", "update", "export", "save", "done"}
        => /\ [k \in 1..Len(style_layers_weights) |-> style_layers_weights[k][1]]
                = <<"conv1_1", "conv2_1", "conv3_1", "conv4_1", "conv5_1">>
           /\ \A k \in 1..Len(style_layers_weights) :
                style_layers_weights[k][1] \notin {"conv3_2", "conv4_2"}
           /\ \A layer \in LayerNames : style_gms[layer] = gram_matrix(style_features[layer]))
    /\ (pc \in {"weights", "done"} => style_features = get_features(Val(style), vgg))
    /\ (LossComputed
        => style_loss = << ExpectedStyleTerm("conv1_1"), ExpectedStyleTerm("conv2_1"),
                           ExpectedStyleTerm("conv3_1"), ExpectedStyleTerm("conv4_1"),
                           ExpectedStyleTerm("conv5_1") >>)

C11_Witness ==
    /\ pc = "update"
    /\ ii = 2
    /\ Len(style_loss) = 5
    /\ \A k \in 1..5 : style_loss[k].num > 0
    /\ style_loss[1] = ExpectedStyleTerm("conv1_1")
    /\ target_features["conv1_1"] # style_features["conv1_1"]

\* the flattened h * w feature map of channel c of gm_tensor
FlatChannel(c) ==
    LET n == gm_tensor.shape[3] * gm_tensor.shape[4]
    IN  SubSeq(gm_tensor.data, (c - 1) * n + 1, c * n)

\* the inner product of two sequences of the same length
RECURSIVE InnerProduct(_, _)
InnerProduct(a, b) ==
    IF a = <<>> THEN 0 ELSE Head(a) * Head(b) + InnerProduct(Tail(a), Tail(b))

\* entry (i, j) of the d x d matrix gm_gram (row-major)
GramEntry(i, j) == gm_gram.data[(i - 1) * gm_gram.shape[2] + j]

\* C12: gram_matrix of a feature tensor of shape (1, d, h, w) returns a d x d
\* matrix whose entry (i, j) is the inner product of the flattened h * w
\* feature maps of channels i and j; the result is symmetric and its diagonal
\* entries are non-negative.
C12_GramMatrixIsInnerProducts ==
    gm_gram # NoValue
    => LET d == gm_tensor.shape[2]
       IN  /\ gm_gram.shape = <<d, d>>
           /\ Len(gm_gram.data) = d * d
           /\ \A i, j \in 1..d :
                /\ GramEntry(i, j) = InnerProduct(FlatChannel(i), FlatChannel(j))
                /\ GramEntry(i, j) = GramEntry(j, i)
           /\ \A i \in 1..d : GramEntry(i, i) >= 0

C12_Witness ==
    /\ gm_gram # NoValue
    /\ gm_tensor.shape[2] = MaxGramD
    /\ gm_tensor.shape[3] > 1
    /\ GramEntry(1, 2) < 0
    /\ GramEntry(1, 2) = InnerProduct(FlatChannel(1), FlatChannel(2))
    /\ GramEntry(1, 1) > 0
    /\ GramEntry(1, 1) # GramEntry(2, 2)
    /\ FlatChannel(1)[1] # FlatChannel(1)[Len(FlatChannel(1))]

====
